---- MODULE Spec2Model ----
(***************************************************************************)
(* BuJu (src/buju.py): a bullet-journal text buffer persisted to a        *)
(* date-named log file, plus a JSON settings file holding the theme and   *)
(* the window placement.                                                   *)
(*                                                                         *)
(* The module's strings are ASCII, so the two non-ASCII glyphs are written *)
(* with stand-ins: TASK "*" is U+2022 (bullet), NOTE "-" is U+2013 (en     *)
(* dash).  The four glyphs stay pairwise distinct, which is all the code   *)
(* depends on.                                                             *)
(***************************************************************************)
EXTENDS Integers, Sequences, FiniteSets, TLC

VARIABLES
    phase,         \* "off" (no window), "running" (mainloop), "crashed" (__init__ raised)
    sessions,      \* number of process starts so far
    theme_name,    \* self.theme_name
    colors,        \* self.colors
    settings,      \* self._settings
    root,          \* the Tk root window: geometry, fullscreen, zoomed, placement calls made
    buffer,        \* content of self.text_widget, without Tk's implicit final newline
    settingsFile,  \* buju_settings.json on disk
    logFile,       \* <today>.txt on disk
    event          \* the last handler that ran, its inputs and how it ended

vars == <<phase, sessions, theme_name, colors, settings, root, buffer,
          settingsFile, logFile, event>>

(***************************************************************************)
(* Bounds of the model                                                     *)
(***************************************************************************)
MaxSessions == 2
MaxTyped == 2

(***************************************************************************)
(* Constants of the program                                                *)
(***************************************************************************)
TASK == "*"
NOTE == "-"
EVENT == "o"
COMPLETED == "X"
SP == " "
NL == "\n"

DEFAULT_THEME_NAME == "Light"

THEMES ==
    [n \in {"Light", "Dark", "Solarized", "Forest"} |->
        CASE n = "Light" ->
               [BG |-> "#fdfdfd", FG |-> "#2c3e50", ACCENT |-> "#3498db", TEXT_BG |-> "#ffffff"]
          [] n = "Dark" ->
               [BG |-> "#1f2933", FG |-> "#e5e7eb", ACCENT |-> "#10b981", TEXT_BG |-> "#111827"]
          [] n = "Solarized" ->
               [BG |-> "#fdf6e3", FG |-> "#586e75", ACCENT |-> "#b58900", TEXT_BG |-> "#fffdf5"]
          [] n = "Forest" ->
               [BG |-> "#0b3d2e", FG |-> "#e6f4ea", ACCENT |-> "#2ecc71", TEXT_BG |-> "#052e22"]]

\* WINDOW_GEOMETRY = "600x700"; the position is the window manager's choice.
WINDOW_GEOMETRY == [w |-> 600, h |-> 700, x |-> 0, y |-> 0]

(***************************************************************************)
(* JSON / Python values.  A scalar is [t, v]: t its Python type after      *)
(* json.load ("absent" is a missing key, read as None by dict.get), v its  *)
(* value (a bool as 0/1, a float n.5 as n, a string as 0).                 *)
(***************************************************************************)
JAbsent == [t |-> "absent", v |-> 0]
JInt(n) == [t |-> "int", v |-> n]
JBool(b) == [t |-> "bool", v |-> IF b THEN 1 ELSE 0]
JFloat(n) == [t |-> "float", v |-> n]
JStr == [t |-> "str", v |-> 0]

\* The value stored under "theme_name": [t, s].
TAbsent == [t |-> "absent", s |-> ""]
TStr(name) == [t |-> "str", s |-> name]
TList == [t |-> "list", s |-> ""]
TInt == [t |-> "int", s |-> ""]

\* The value stored under "window": absent, a non-object, or an object.
WNone(tag) ==
    [t |-> tag, width |-> JAbsent, height |-> JAbsent, x |-> JAbsent, y |-> JAbsent,
     fullscreen |-> JAbsent, zoomed |-> JAbsent]
WDict(w, h, x, y, f, z) ==
    [t |-> "dict", width |-> w, height |-> h, x |-> x, y |-> y,
     fullscreen |-> f, zoomed |-> z]

\* A JSON object with the keys theme_name, window and one key the program does not know.
Doc(th, win, ex) == [theme_name |-> th, window |-> win, extra |-> ex]

\* The file on disk: its kind, and the document when it is a JSON object.
NoDoc == Doc(TAbsent, WNone("absent"), JAbsent)
FileOf(kind, doc) == [kind |-> kind, doc |-> doc]

\* isinstance(x, int): bool is a subclass of int in Python.
IsInstanceInt(j) == j.t \in {"int", "bool"}
\* isinstance(x, bool)
IsInstanceBool(j) == j.t = "bool"
\* truth value of a scalar
Truthy(j) == j.v # 0

\* d.get(key, False)
GetOrFalse(j) == IF j.t = "absent" THEN JBool(FALSE) ELSE j

(***************************************************************************)
(* load_settings                                                           *)
(***************************************************************************)
\* saved_theme in THEMES: a list is unhashable and raises TypeError.
ThemeLookup(th) ==
    CASE th.t = "list" -> "TypeError"
      [] th.t = "str" /\ th.s \in DOMAIN THEMES -> "found"
      [] OTHER -> "notfound"

\* a variant that merges only the keys the program reads
DictUpdateKnownOnly(d, data) ==
    Doc(IF data.theme_name.t # "absent" THEN data.theme_name ELSE d.theme_name,
        IF data.window.t # "absent" THEN data.window ELSE d.window,
        d.extra)

\* self._settings.update(data): every key of data overrides.
DictUpdate(d, data) ==
    Doc(IF data.theme_name.t # "absent" THEN data.theme_name ELSE d.theme_name,
        IF data.window.t # "absent" THEN data.window ELSE d.window,
        IF data.extra.t # "absent" THEN data.extra ELSE d.extra)

\* The outcome of load_settings on file f, from theme th and settings d:
\* the exception that leaves it ("none" when it returns), theme and settings.
load_settings(f, th, d) ==
    CASE f.kind \in {"missing", "malformed", "ioerror"} ->
           \* FileNotFoundError, json.JSONDecodeError, OSError: caught
           [raised |-> "none", theme |-> th, settings |-> d]
      [] f.kind = "undecodable" ->
           \* bytes that are not UTF-8: UnicodeDecodeError is not in the except clause
           [raised |-> "UnicodeDecodeError", theme |-> th, settings |-> d]
      [] f.kind = "nonobject" ->
           \* data.get on a list, a number, a string or null
           [raised |-> "AttributeError", theme |-> th, settings |-> d]
      [] OTHER ->
           LET look == ThemeLookup(f.doc.theme_name) IN
           IF look = "TypeError"
           THEN [raised |-> "TypeError", theme |-> th, settings |-> d]
           ELSE [raised |-> "none",
                 theme |-> IF look = "found" THEN f.doc.theme_name.s ELSE th,
                 settings |-> DictUpdate(d, f.doc)]

(***************************************************************************)
(* Window restore in __init__                                              *)
(***************************************************************************)
\* f"{n}": an int prints as digits, a bool as True/False.
PyFormat(j) == [numeric |-> j.t = "int", val |-> j.v]

\* Tk's wm geometry accepts WxH and WxH+X+Y with numeric parts only.
TkGeometryOk(parts) == \A i \in 1..Len(parts) : parts[i].numeric

\* a variant without the lower limit on the size
GeometryValidNoMin(width, height) == IsInstanceInt(width) /\ IsInstanceInt(height)

\* Line 50: the condition under which the saved size is used.
GeometryValid(width, height) ==
    /\ IsInstanceInt(width) /\ IsInstanceInt(height)
    /\ width.v > 200 /\ height.v > 200

ModeWanted(flag) == IsInstanceBool(flag) /\ Truthy(flag)

\* Lines 49-67: the window after the restore, from window r and saved_window sw.
\* modeOk: whether the toolkit accepts the fullscreen/zoomed request.
RestoreWindow(r, sw, modeOk) ==
    LET width == sw.width
        height == sw.height
        fullscreen == GetOrFalse(sw.fullscreen)
        zoomed == GetOrFalse(sw.zoomed)
        withPos == IsInstanceInt(sw.x) /\ IsInstanceInt(sw.y)
        parts == IF withPos
                 THEN <<PyFormat(width), PyFormat(height), PyFormat(sw.x), PyFormat(sw.y)>>
                 ELSE <<PyFormat(width), PyFormat(height)>>
        wantGeo == GeometryValid(width, height)
        geoOk == TkGeometryOk(parts)
        r1 == IF wantGeo
              THEN [r EXCEPT
                      !.geom = IF ~geoOk THEN @
                               ELSE IF withPos
                                    THEN [w |-> width.v, h |-> height.v, x |-> sw.x.v, y |-> sw.y.v]
                                    ELSE [@ EXCEPT !.w = width.v, !.h = height.v],
                      !.calls = Append(@, [call |-> "geometry", ok |-> geoOk])]
              ELSE r
        \* a TclError of root.geometry leaves the outer try block
        skipped == wantGeo /\ ~geoOk
    IN  IF skipped THEN r1
        ELSE IF ModeWanted(fullscreen)
             THEN [r1 EXCEPT !.fullscreen = modeOk,
                             !.calls = Append(@, [call |-> "fullscreen", ok |-> modeOk])]
        ELSE IF ModeWanted(zoomed)
             THEN [r1 EXCEPT !.zoomed = modeOk,
                             !.calls = Append(@, [call |-> "zoomed", ok |-> modeOk])]
        ELSE r1

\* The root window after tk.Tk() and root.geometry(WINDOW_GEOMETRY), line 34.
NewRoot == [geom |-> WINDOW_GEOMETRY, fullscreen |-> FALSE, zoomed |-> FALSE, calls |-> <<>>]

(***************************************************************************)
(* save_settings                                                           *)
(***************************************************************************)
\* get_current_window_metrics: (w, h, x, y), or four None when the query raised.
\* get_fullscreen_state / get_zoomed_state: False when the query raised.
WindowPayload(r, metricsOk, fsOk, zoomOk) ==
    WDict(IF metricsOk THEN JInt(r.geom.w) ELSE JAbsent,
          IF metricsOk THEN JInt(r.geom.h) ELSE JAbsent,
          IF metricsOk THEN JInt(r.geom.x) ELSE JAbsent,
          IF metricsOk THEN JInt(r.geom.y) ELSE JAbsent,
          JBool(fsOk /\ r.fullscreen),
          JBool(zoomOk /\ r.zoomed))

\* a variant that leaves out line 202
MergeRuntimeKeepTheme(d, th, payload) == Doc(d.theme_name, payload, d.extra)

\* self._settings after lines 202-213.
MergeRuntime(d, th, payload) == Doc(TStr(th), payload, d.extra)

\* json.dump(self._settings, f): every key of the dict is written.
JsonDump(d) == FileOf("object", d)

\* The settings file after lines 214-215.  wr: "ok", "openfail" (open raised
\* OSError, file untouched) or "partial" (the write raised OSError midway).
WriteSettings(old, d, wr) ==
    CASE wr = "ok" -> JsonDump(d)
      [] wr = "partial" -> FileOf("malformed", NoDoc)
      [] OTHER -> old

(***************************************************************************)
(* The text buffer                                                         *)
(***************************************************************************)
\* text_widget.get("1.0", tk.END): Tk's text always ends with one newline
\* that is not part of what was inserted, and END lies after it.
TextGetAll(buf) == buf \o <<NL>>

\* text_widget.insert(tk.END, s): before the implicit final newline.
InsertEnd(buf, s) == buf \o s

\* The lines of the widget: the content split at newlines (line 1 is "1.0").
RECURSIVE SplitLines(_, _)
SplitLines(s, cur) ==
    IF s = <<>> THEN <<cur>>
    ELSE IF Head(s) = NL THEN <<cur>> \o SplitLines(Tail(s), <<>>)
    ELSE SplitLines(Tail(s), Append(cur, Head(s)))

Lines(buf) == SplitLines(buf, <<>>)

RECURSIVE JoinLines(_)
JoinLines(ls) ==
    IF Len(ls) = 1 THEN ls[1]
    ELSE ls[1] \o <<NL>> \o JoinLines(Tail(ls))

\* str.strip(): whitespace removed at both ends.
RECURSIVE LStrip(_)
LStrip(s) == IF s # <<>> /\ Head(s) = SP THEN LStrip(Tail(s)) ELSE s

RECURSIVE RStrip(_)
RStrip(s) ==
    IF s # <<>> /\ s[Len(s)] = SP THEN RStrip(SubSeq(s, 1, Len(s) - 1)) ELSE s

Strip(s) == RStrip(LStrip(s))

\* a variant that looks for the glyph anywhere in the text
Contains(s, g) == \E i \in 1..Len(s) : s[i] = g

\* str.startswith(g), g one character
StartsWith(s, g) == s # <<>> /\ Head(s) = g

\* a variant that replaces every occurrence
ReplaceAll(s, old, new) == [i \in 1..Len(s) |-> IF s[i] = old THEN new ELSE s[i]]

\* str.replace(old, new, 1): the first occurrence only
Replace1(s, old, new) ==
    IF \E i \in 1..Len(s) : s[i] = old
    THEN LET k == CHOOSE i \in 1..Len(s) : s[i] = old /\ \A j \in 1..(i - 1) : s[j] # old
         IN  [s EXCEPT ![k] = new]
    ELSE s

\* Lines 266-272: the new text of the line, or the line itself when nothing is to be done.
ToggleLine(line_text) ==
    IF StartsWith(Strip(line_text), TASK) THEN Replace1(line_text, TASK, COMPLETED)
    ELSE IF StartsWith(Strip(line_text), COMPLETED) THEN Replace1(line_text, COMPLETED, TASK)
    ELSE line_text

\* toggle_task_state with the insert cursor on line n: delete and insert of that line.
ToggleBuffer(buf, n) ==
    LET ls == Lines(buf) IN JoinLines([ls EXCEPT ![n] = ToggleLine(ls[n])])

\* f"  {prefix}  {item_text}\n"
EntryText(prefix, item_text) == <<SP, SP, prefix, SP, SP>> \o item_text \o <<NL>>

\* add_item: askstring gave item_text, or None when cancelled.
AddToBuffer(buf, prefix, cancelled, item_text) ==
    IF ~cancelled /\ item_text # <<>>
    THEN InsertEnd(buf, EntryText(prefix, item_text))
    ELSE buf

(***************************************************************************)
(* Handlers                                                                *)
(***************************************************************************)
Ev(op, raised, wrote) ==
    [op |-> op, line |-> 0, prefix |-> "", text |-> <<>>, cancelled |-> FALSE,
     raised |-> raised, wrote |-> wrote]

\* load_log: the file's content inserted at "1.0" of the empty widget.
load_log(f) == IF f.exists THEN f.content ELSE <<>>

\* save_log: the file holds what text_widget.get("1.0", tk.END) returned.
save_log(buf) == [exists |-> TRUE, content |-> TextGetAll(buf)]

\* BuJoApp.__init__ in a new process.
Startup(modeOk) ==
    /\ phase # "running"
    /\ sessions < MaxSessions
    /\ sessions' = sessions + 1
    /\ LET ls == load_settings(settingsFile, DEFAULT_THEME_NAME,
                              Doc(TStr(DEFAULT_THEME_NAME), WNone("absent"), JAbsent))
           win == ls.settings.window
           \* self._settings.get("window", {}), then saved_window.get(...)
           winRaised == IF win.t \in {"absent", "dict"} THEN "none" ELSE "AttributeError"
           raised == IF ls.raised # "none" THEN ls.raised ELSE winRaised
       IN  /\ theme_name' = ls.theme
           /\ colors' = THEMES[ls.theme]
           /\ settings' = ls.settings
           /\ event' = Ev("start", raised, FALSE)
           /\ IF raised = "none"
              THEN /\ phase' = "running"
                   /\ root' = RestoreWindow(NewRoot, win, modeOk)
                   /\ buffer' = load_log(logFile)
              ELSE /\ phase' = "crashed"
                   /\ root' = NewRoot
                   /\ buffer' = <<>>
    /\ UNCHANGED <<settingsFile, logFile>>

\* set_theme(name), from the Theme menu or any other caller.
set_theme(name, metricsOk, fsOk, zoomOk, wr) ==
    /\ phase = "running"
    /\ IF name \notin DOMAIN THEMES
       THEN /\ event' = Ev("theme", "none", FALSE)
            /\ UNCHANGED <<theme_name, colors, settings, settingsFile>>
       ELSE LET d == MergeRuntime(settings, name, WindowPayload(root, metricsOk, fsOk, zoomOk))
            IN  /\ theme_name' = name
                /\ colors' = THEMES[name]
                /\ settings' = d
                /\ settingsFile' = WriteSettings(settingsFile, d, wr)
                /\ event' = Ev("theme", "none", wr = "ok")
    /\ UNCHANGED <<phase, sessions, root, buffer, logFile>>

\* The user resizes and moves the window.
UserResize ==
    /\ phase = "running"
    /\ root' = [root EXCEPT !.geom = IF @ = WINDOW_GEOMETRY
                                     THEN [w |-> 800, h |-> 600, x |-> 40, y |-> 30]
                                     ELSE WINDOW_GEOMETRY]
    /\ event' = Ev("resize", "none", FALSE)
    /\ UNCHANGED <<phase, sessions, theme_name, colors, settings, buffer, settingsFile, logFile>>

\* The user types one character at the end of the text.
TypeChar(c) ==
    /\ phase = "running"
    /\ Len(buffer) < MaxTyped
    /\ buffer' = InsertEnd(buffer, <<c>>)
    /\ event' = Ev("type", "none", FALSE)
    /\ UNCHANGED <<phase, sessions, theme_name, colors, settings, root, settingsFile, logFile>>

\* add_item(prefix) with the prompt's answer.
add_item(prefix, cancelled, item_text) ==
    /\ phase = "running"
    /\ Len(buffer) <= MaxTyped
    /\ buffer' = AddToBuffer(buffer, prefix, cancelled, item_text)
    /\ event' = [Ev("add", "none", FALSE) EXCEPT
                   !.prefix = prefix, !.text = item_text, !.cancelled = cancelled]
    /\ UNCHANGED <<phase, sessions, theme_name, colors, settings, root, settingsFile, logFile>>

\* toggle_task_state with the insert cursor on line n.
toggle_task_state(n) ==
    /\ phase = "running"
    /\ n \in 1..Len(Lines(buffer))
    /\ buffer' = ToggleBuffer(buffer, n)
    /\ event' = [Ev("toggle", "none", FALSE) EXCEPT !.line = n]
    /\ UNCHANGED <<phase, sessions, theme_name, colors, settings, root, settingsFile, logFile>>

\* on_closing: save_settings, save_log, root.destroy().  logOk: whether the
\* log file could be opened and written; an OSError of save_log is caught nowhere.
on_closing(metricsOk, fsOk, zoomOk, wr, logOk) ==
    /\ phase = "running"
    /\ LET d == MergeRuntime(settings, theme_name, WindowPayload(root, metricsOk, fsOk, zoomOk))
       IN  /\ settings' = d
           /\ settingsFile' = WriteSettings(settingsFile, d, wr)
           /\ IF logOk
              THEN /\ logFile' = save_log(buffer)
                   /\ phase' = "off"
                   /\ event' = Ev("close", "none", wr = "ok")
              ELSE /\ logFile' = logFile
                   /\ phase' = "running"
                   /\ event' = Ev("close", "OSError", wr = "ok")
    /\ UNCHANGED <<sessions, theme_name, colors, root, buffer>>

(***************************************************************************)
(* Inputs                                                                  *)
(***************************************************************************)
WriteOutcomes == {"ok", "openfail", "partial"}
ThemeChoices == {"Light", "Dark", "Nonexistent"}
TypedChars == {SP, TASK, COMPLETED, "a", NL}
Prefixes == {TASK, NOTE, EVENT}
ItemTexts == {<<>>, <<"a">>, <<COMPLETED, TASK>>}

\* Hand-edited or foreign settings files.
SavedThemes == {TAbsent, TStr("Dark"), TStr("Nonexistent"), TList, TInt}
SavedWindows ==
    {WNone("absent"), WNone("int")} \cup
    { WDict(w, h, x, JInt(20), f, z) :
        w \in {JAbsent, JInt(50), JInt(300), JFloat(300), JBool(TRUE)},
        h \in {JInt(300), JInt(50)},
        x \in {JAbsent, JInt(10), JBool(TRUE)},
        f \in {JAbsent, JBool(TRUE), JInt(1)},
        z \in {JAbsent, JBool(TRUE)} }
SettingsFiles ==
    { FileOf(k, NoDoc) : k \in {"missing", "malformed", "ioerror", "undecodable", "nonobject"} }
    \cup { FileOf("object", Doc(th, win, ex)) :
             th \in SavedThemes, win \in {WNone("absent"), WNone("int")},
             ex \in {JAbsent, JInt(7)} }
    \cup { FileOf("object", Doc(th, win, ex)) :
             th \in {TStr("Dark"), TStr("Nonexistent")}, win \in SavedWindows,
             ex \in {JAbsent, JInt(7)} }

\* No log file of today yet, or the one an earlier run of today saved from the buffer "a".
LogFiles ==
    { [exists |-> FALSE, content |-> <<>>],
      [exists |-> TRUE, content |-> <<"a", NL>>] }

(***************************************************************************)
(* Specifications                                                          *)
(***************************************************************************)
InitCommon ==
    /\ phase = "off"
    /\ sessions = 0
    /\ theme_name = DEFAULT_THEME_NAME
    /\ colors = THEMES[DEFAULT_THEME_NAME]
    /\ settings = Doc(TStr(DEFAULT_THEME_NAME), WNone("absent"), JAbsent)
    /\ root = NewRoot
    /\ buffer = <<>>
    /\ event = Ev("none", "none", FALSE)

\* The journal: any settings file a first run or an earlier run leaves, any log file.
Init ==
    /\ InitCommon
    /\ settingsFile = FileOf("missing", NoDoc)
    /\ logFile \in LogFiles

Next ==
    \/ \E modeOk \in BOOLEAN : Startup(modeOk)
    \/ \E c \in TypedChars : TypeChar(c)
    \/ \E p \in Prefixes, cancelled \in BOOLEAN, t \in ItemTexts : add_item(p, cancelled, t)
    \/ \E n \in 1..(MaxTyped + MaxSessions + 2) : toggle_task_state(n)
    \/ \E wr \in WriteOutcomes, logOk \in BOOLEAN : on_closing(TRUE, TRUE, TRUE, wr, logOk)

Spec == Init /\ [][Next]_vars

\* The settings store: any settings file on disk, no log file, no edits.
InitSettings ==
    /\ InitCommon
    /\ settingsFile \in SettingsFiles
    /\ logFile = [exists |-> FALSE, content |-> <<>>]

NextSettings ==
    \/ \E modeOk \in BOOLEAN : Startup(modeOk)
    \/ \E name \in ThemeChoices, metricsOk, stateOk \in BOOLEAN, wr \in WriteOutcomes :
         set_theme(name, metricsOk, stateOk, stateOk, wr)
    \/ UserResize
    \/ \E metricsOk, stateOk \in BOOLEAN, wr \in WriteOutcomes, logOk \in BOOLEAN :
         on_closing(metricsOk, stateOk, stateOk, wr, logOk)

SpecSettings == InitSettings /\ [][NextSettings]_vars

(***************************************************************************)
(* Properties                                                              *)
(***************************************************************************)
ThemeKeys == {"Light", "Dark", "Solarized", "Forest"}

\* The line starts, after leading blanks, with the open or the completed task glyph.
IsTaskStart(line) ==
    \E k \in 1..Len(line) :
        /\ line[k] \in {TASK, COMPLETED}
        /\ \A j \in 1..(k - 1) : line[j] = SP

\* The line with its first non-blank character exchanged between the two task glyphs.
LeadingGlyphSwapped(line) ==
    LET k == CHOOSE i \in 1..Len(line) : line[i] # SP /\ \A j \in 1..(i - 1) : line[j] = SP
    IN  [line EXCEPT ![k] = IF @ = TASK THEN COMPLETED ELSE TASK]

CallsOf(names) == { i \in 1..Len(root.calls) : root.calls[i].call \in names }

\* C1: a buffer saved at close and loaded by the next start of the same day
\* comes back equal, and a start followed at once by a close leaves an
\* existing log file as it was.
C1_SaveLoadRoundTrip ==
    [][ /\ (event.op = "close" /\ event.raised = "none" /\ event'.op = "start"
            /\ phase' = "running") => buffer' = buffer
        /\ (event.op = "start" /\ logFile.exists /\ event'.op = "close"
            /\ event'.raised = "none") => logFile' = logFile ]_vars

\* C2: whatever the two writes of on_closing do, no error leaves on_closing
\* and the window is destroyed.
C2_CloseAlwaysCompletes ==
    event.op = "close" => (event.raised = "none" /\ phase = "off")

\* C3: for every state of the settings file the start raises nothing and
\* the application runs.
C3_StartupNeverRaises ==
    event.op = "start" => (event.raised = "none" /\ phase = "running")

\* C4: after a start, the saved size was used only if width and height are
\* integers above 200 (else the default size stands), a mode was requested
\* only if its flag is the boolean true, and a theme_name that is no theme
\* key leaves the default theme.
C4_RestoreValidation ==
    event.op = "start" =>
        LET th == settingsFile.doc.theme_name
            w == settingsFile.doc.window
            sizeOk == /\ w.width.t = "int" /\ w.height.t = "int"
                      /\ w.width.v > 200 /\ w.height.v > 200
        IN  /\ CallsOf({"geometry"}) # {} => sizeOk
            /\ ~sizeOk => (root.geom.w = WINDOW_GEOMETRY.w /\ root.geom.h = WINDOW_GEOMETRY.h)
            /\ (CallsOf({"fullscreen"}) # {} \/ root.fullscreen) => w.fullscreen = JBool(TRUE)
            /\ (CallsOf({"zoomed"}) # {} \/ root.zoomed) => w.zoomed = JBool(TRUE)
            /\ ~(th.t = "str" /\ th.s \in ThemeKeys) => theme_name = DEFAULT_THEME_NAME

C4_Witness ==
    /\ event.op = "start" /\ phase = "running"
    /\ settingsFile.doc.theme_name = TStr("Nonexistent")
    /\ settingsFile.doc.window.width = JInt(50)
    /\ settingsFile.doc.window.height = JInt(300)
    /\ settingsFile.doc.window.fullscreen = JInt(1)
    /\ root.geom = WINDOW_GEOMETRY
    /\ root.calls = <<>>
    /\ theme_name = DEFAULT_THEME_NAME

\* C5: toggling a line that starts, after leading blanks, with the task or
\* the completed glyph exchanges that leading glyph only, leaves every other
\* character of the buffer alone, and a second toggle gives back the buffer.
C5_ToggleTwiceRestores ==
    [][ (event'.op = "toggle" /\ IsTaskStart(Lines(buffer)[event'.line])) =>
          /\ Lines(buffer') =
               [Lines(buffer) EXCEPT ![event'.line] = LeadingGlyphSwapped(@)]
          /\ ToggleBuffer(buffer', event'.line) = buffer ]_vars

C5_Witness ==
    /\ event.op = "toggle"
    /\ Len(Lines(buffer)) = 3
    /\ Lines(buffer)[event.line] = <<SP, SP, COMPLETED, SP, SP, COMPLETED, TASK>>

\* C6: toggling a line that does not start, after leading blanks, with the
\* task or the completed glyph leaves the whole buffer unchanged.
C6_ToggleNoOp ==
    [][ (event'.op = "toggle" /\ ~IsTaskStart(Lines(buffer)[event'.line])) =>
          buffer' = buffer ]_vars

C6_Witness ==
    /\ event.op = "toggle"
    /\ \E t \in ItemTexts :
         Lines(buffer)[event.line] = <<SP, SP, NOTE, SP, SP>> \o t /\ Contains(t, TASK)

\* C7: add_item with a non-empty text makes the last line of the buffer the
\* formatted entry, newline-terminated, and adds exactly one line; with an
\* empty text or a cancelled prompt the buffer stays as it was.
C7_AddItemAppendsEntry ==
    [][ event'.op = "add" =>
          IF ~event'.cancelled /\ event'.text # <<>>
          THEN LET ls == Lines(buffer')
               IN  /\ Len(ls) = Len(Lines(buffer)) + 1
                   /\ ls[Len(ls)] = <<>>
                   /\ ls[Len(ls) - 1] = <<SP, SP, event'.prefix, SP, SP>> \o event'.text
          ELSE buffer' = buffer ]_vars

\* C8: after a completed start, a size/position call precedes a mode call,
\* the mode call is the last placement call, at most one mode is requested,
\* and a saved fullscreen (else zoomed) flag of true is requested whatever
\* the saved size and position are.
C8_ModeAppliedLast ==
    (event.op = "start" /\ phase = "running") =>
        LET w == settingsFile.doc.window
            modes == CallsOf({"fullscreen", "zoomed"})
        IN  /\ \A i \in CallsOf({"geometry"}), j \in modes : i < j
            /\ \A j \in modes : j = Len(root.calls)
            /\ Cardinality(modes) <= 1
            /\ w.fullscreen = JBool(TRUE) => CallsOf({"fullscreen"}) # {}
            /\ (w.zoomed = JBool(TRUE) /\ w.fullscreen # JBool(TRUE)) => CallsOf({"zoomed"}) # {}

\* C9, as claimed: a settings document written by save_settings holds no
\* key other than theme_name and window.
C9_OnlyKnownKeysWritten ==
    event.wrote => settingsFile.doc.extra.t = "absent"

\* C9, amended: a save over a settings document keeps the document's unknown
\* key with its value, next to the current theme_name and the window snapshot.
C9_UnknownKeysPreserved ==
    [][ (event'.wrote /\ settingsFile.kind = "object") =>
          /\ settingsFile'.kind = "object"
          /\ settingsFile'.doc.extra = settingsFile.doc.extra
          /\ settingsFile'.doc.theme_name = TStr(theme_name')
          /\ settingsFile'.doc.window.t = "dict" ]_vars

C9_Witness ==
    /\ event.op \in {"theme", "close"}
    /\ event.wrote
    /\ settingsFile.kind = "object"
    /\ settingsFile.doc.extra = JInt(7)

\* C10: once started, the active theme is a key of the palette, colors is
\* that theme's palette, and every settings document written names a theme
\* that is a key of the palette.
C10_ThemeAlwaysRecognized ==
    event.op # "none" =>
        /\ theme_name \in ThemeKeys
        /\ colors = THEMES[theme_name]
        /\ event.wrote =>
             /\ settingsFile.doc.theme_name.t = "str"
             /\ settingsFile.doc.theme_name.s \in ThemeKeys

\* Started from a file naming an unknown theme: _settings carries the name, the theme does not.
C10_Witness ==
    /\ event.op = "start" /\ phase = "running"
    /\ settingsFile.doc.theme_name = TStr("Nonexistent")
    /\ settings.theme_name = TStr("Nonexistent")
    /\ theme_name = DEFAULT_THEME_NAME
    /\ colors = THEMES[DEFAULT_THEME_NAME]

====
